---- MODULE Spec2Model ----
(***************************************************************************)
(* Model of the xpmem / POSIX-shm benchmark programs.                      *)
(*                                                                         *)
(*   SpecPat  : fill_pattern / verify_pattern (common.h) as pure functions *)
(*   SpecShm  : shm_bench.c, parent (requester) and child (responder)      *)
(*   SpecXp   : xpmem_exporter.c and xpmem_importer.c with the marker      *)
(*              files of common.h                                          *)
(*                                                                         *)
(*   Spec     : one of the three is run (chosen by the initial state)      *)
(*   SpecFault: Spec in an environment that can change a payload byte of   *)
(*              shm_bench (for the handling of verification mismatches)    *)
(*   FairSpecShm, FairSpecXp : the processes are scheduled fairly          *)
(*                                                                         *)
(* Every process is a sequential program; one action is one statement (or  *)
(* one access to memory / the file system that the other process can       *)
(* observe).  Sizes are in bytes; the size table is scaled down so that    *)
(* buffers can be modelled byte by byte.                                   *)
(*                                                                         *)
(* In shm_control_t only phase is volatile.  The stores to the plain       *)
(* fields that stand next to a store to phase (data_size and iteration in  *)
(* the parent, verify_err in the child) are not ordered with it: they are  *)
(* kept as a set of pending stores performed in any order.  Loads and all  *)
(* other statements keep program order.                                    *)
(***************************************************************************)
EXTENDS Integers, Sequences, FiniteSets, TLC

\* ---------------------------------------------------------------------
\* Configuration (common.h)
\* ---------------------------------------------------------------------

\* TEST_SIZES[] of common.h, ascending; scaled from 4 KB .. 1 GB to bytes
TEST_SIZES == <<8, 16, 32>>

NUM_TEST_SIZES == Len(TEST_SIZES)

REPEAT_COUNT == 5

\* number of values of a uint8_t: (uint8_t)(i & 0xFF)
ByteMod == 256

\* ---------------------------------------------------------------------
\* fill_pattern / verify_pattern (common.h)
\* ---------------------------------------------------------------------

\* byte written at offset i (0-based): (uint8_t)(i & 0xFF)
PatternByte(i) == i % ByteMod

\* mutant: the loop stops one byte early (i < size - 1)
fill_pattern_short(buf, size) ==
    [k \in 1..Len(buf) |-> IF k <= size - 1 THEN PatternByte(k - 1) ELSE buf[k]]

\* for (i = 0; i < size; i++) p[i] = (uint8_t)(i & 0xFF);
\* buffers are 1-based sequences: p[i] is buf[i + 1]
fill_pattern(buf, size) ==
    [k \in 1..Len(buf) |-> IF k <= size THEN PatternByte(k - 1) ELSE buf[k]]

RECURSIVE verify_loop(_, _, _)
\* the loop of verify_pattern over the offsets lo <= i < hi: the value
\* returned at the first mismatch, 0 when the loop runs to hi.  The range is
\* scanned in ascending order, halved to keep the evaluation depth small.
verify_loop(buf, lo, hi) ==
    IF lo >= hi THEN 0
    ELSE IF hi = lo + 1
         THEN (IF buf[lo + 1] # PatternByte(lo) THEN lo + 1 ELSE 0)
         ELSE LET mid == (lo + hi) \div 2
                  first == verify_loop(buf, lo, mid)
              IN IF first # 0 THEN first ELSE verify_loop(buf, mid, hi)

RECURSIVE verify_loop_off(_, _, _)
\* mutant: returns the offset itself instead of offset + 1
verify_loop_off(buf, lo, hi) ==
    IF lo >= hi THEN 0
    ELSE IF hi = lo + 1
         THEN (IF buf[lo + 1] # PatternByte(lo) THEN lo ELSE 0)
         ELSE LET mid == (lo + hi) \div 2
                  first == verify_loop_off(buf, lo, mid)
              IN IF first # 0 THEN first ELSE verify_loop_off(buf, mid, hi)

\* mutant of verify_pattern: "return i"
verify_pattern_off(buf, size) == verify_loop_off(buf, 0, size)

\* size_t verify_pattern(const void *buf, size_t size)
verify_pattern(buf, size) == verify_loop(buf, 0, size)

\* memset(buf, c, size)
memset(buf, c, size) ==
    [k \in 1..Len(buf) |-> IF k <= size THEN c ELSE buf[k]]

\* memcpy(dst, src, size)
memcpy(dst, src, size) ==
    [k \in 1..Len(dst) |-> IF k <= size THEN src[k] ELSE dst[k]]

\* a buffer of n bytes all equal to c
Bytes(n, c) == [k \in 1..n |-> c]


\* ---------------------------------------------------------------------
\* State
\* ---------------------------------------------------------------------

VARIABLES
    \* -- pattern harness (SpecPat)
    tpc,        \* "start", "filled", "verified", "roundtrip"
    tbuf,       \* the buffer handed to fill_pattern / verify_pattern
    tsize,      \* the size argument
    tres,       \* the value verify_pattern returned
    \* -- shm_bench.c (SpecShm)
    ppc,        \* parent: position in main
    cpc,        \* child: position in main ("c_none" before fork)
    psetup,     \* parent: index of the next setup call
    pexit,      \* parent exit code, -1 while running
    cexit,      \* child exit code, -1 while running
    ctrl,       \* shm_control_t in shared memory
    shm,        \* the data region shm_ptr[0 .. max_size)
    local_buf,  \* child: local_buf[0 .. max_size)
    si,         \* parent: index into TEST_SIZES (1-based)
    r,          \* parent: repeat index
    csize,      \* child: local variable size
    cerr,       \* child: value returned by verify_pattern
    ppend,      \* parent: stores of the publish block not yet performed
    cpend,      \* child: stores of the response block not yet performed
    elapsed,    \* child: t1 - t0, identified by the copy it brackets
    times,      \* parent: times[0 .. r)
    samples,    \* rows printed by print_result, per size index
    summaries,  \* number of print_summary rows
    reports,    \* the parent's reports (r == 0): <<si, r, verify_err>>
    posted,     \* number of requests posted with data_size > 0
    copies,     \* number of memcpy executions of the child
    verifies,   \* number of verify_pattern executions, per size
    \* -- xpmem_exporter.c and xpmem_importer.c (SpecXp)
    epc,        \* exporter: position in main
    ipc,        \* importer: position in main and the bench functions
    e_max_size, \* exporter: max_size (default or argv[1] MB)
    g_running,  \* exporter: the flag cleared by sigint_handler
    handler,    \* exporter: signal(SIGINT, sigint_handler) has been called
    eexit,      \* exporter exit code, -1 while running
    iexit,      \* importer exit code, -1 while running
    segid_file, \* SEGID_FILE: 0 when absent, else the inode it names
    fcontent,   \* the fields stored in each inode of SEGID_FILE
    ready_file, \* READY_FILE: "none", "stale" (earlier run) or "run"
    done_file,  \* DONE_FILE: "none", "stale" (earlier run) or "run"
    seg_live,   \* the xpmem segment of this exporter exists
    shared_buf, \* exporter: shared_buf[0 .. max_size)
    fp,         \* importer: inode opened by fopen(SEGID_FILE, "r")
    i_segid,    \* importer: segid read from the descriptor
    i_max_size, \* importer: max_size read from the descriptor
    attached,   \* importer: attached_ptr maps the segment
    ilocal,     \* importer: local_buf
    lsrc,       \* importer: src of bench_local_memcpy
    ldst,       \* importer: dst of bench_local_memcpy
    isi,        \* importer: index into TEST_SIZES (1-based)
    ir,         \* importer: repeat index
    ierr,       \* importer: err of the last verify_pattern
    itimes,     \* importer: number of entries of times[] filled
    rows,       \* rows printed by print_result, per method and size index
    isummaries, \* number of print_summary rows
    iverifies,  \* number of verify_pattern executions, per size index
    ireports,   \* the importer's reports: <<err, the copy read the segment>>
    icopy_live, \* importer: the last read of attached_ptr found the segment
    issued,     \* the transfers performed: <<method, size, capacity>>
    ready_seen, \* importer: READY_FILE as wait_for_file found it
    done_seen,  \* exporter: DONE_FILE as access() found it
    ifailed,    \* importer: a setup call has failed
    nfields,    \* importer: value returned by fscanf, NotCalled before
    itouched,   \* importer: bytes [0, itouched) of attached_ptr accessed so far
    nready,     \* exporter: calls of signal_file(READY_FILE)
    ndone,      \* importer: calls of signal_file(DONE_FILE)
    clean_start \* no marker file existed when the two programs were started

patVars == <<tpc, tbuf, tsize, tres>>

shmVars == <<ppc, cpc, psetup, pexit, cexit, ctrl, shm, local_buf, si, r,
             csize, cerr, ppend, cpend, elapsed, times, samples, summaries,
             reports, posted, copies, verifies>>

xpVars == <<epc, ipc, e_max_size, g_running, handler, eexit, iexit,
            segid_file, fcontent, ready_file, done_file, seg_live,
            shared_buf, fp, i_segid, i_max_size, attached, ilocal, lsrc,
            ldst, isi, ir, ierr, itimes, rows, isummaries, iverifies,
            ireports, icopy_live, issued, ready_seen, done_seen, ifailed,
            nfields, itouched, nready, ndone, clean_start>>

vars == <<patVars, shmVars, xpVars>>

\* the variables of the other programs, left alone by each program's steps
notPat == <<shmVars, xpVars>>
notShm == <<patVars, xpVars>>
notXp == <<patVars, shmVars>>

\* ---------------------------------------------------------------------
\* SpecPat: fill_pattern and verify_pattern applied to bounded inputs
\* ---------------------------------------------------------------------

\* largest size handed to the pattern functions
PatMaxLen == 258

\* sizes tried: 0, around 8 and around the wrap of the byte pattern
PatSizes == {0, 1, 7, 8, 9, 255, 256, 257, PatMaxLen}

\* offsets at which an initial buffer may deviate from its base content
CorruptOffsets == {0, 1, 8, 255, 256, 257}

\* buf with the bytes at the offsets of K changed by d
Corrupt(buf, K, d) ==
    [k \in 1..Len(buf) |->
        IF (k - 1) \in K THEN (buf[k] + d) % ByteMod ELSE buf[k]]

\* initial buffers: zero, 0xAA or the pattern, changed at up to two offsets
PatBufs ==
    LET n == PatMaxLen + 1
        bases == {Bytes(n, 0), Bytes(n, 170), fill_pattern(Bytes(n, 0), n)}
    IN { Corrupt(b, K, d) :
            b \in bases,
            K \in {S \in SUBSET CorruptOffsets : Cardinality(S) <= 2},
            d \in {1, 255} }

InitPat ==
    /\ tpc = "start"
    /\ tsize \in PatSizes
    /\ tbuf \in PatBufs
    /\ tres = 0

PatIdle ==
    /\ tpc = "off"
    /\ tsize = 0
    /\ tbuf = <<>>
    /\ tres = 0

\* fill_pattern(buf, size)
TFill ==
    /\ tpc = "start"
    /\ tbuf' = fill_pattern(tbuf, tsize)
    /\ tpc' = "filled"
    /\ UNCHANGED <<tsize, tres, notPat>>

\* verify_pattern(buf, size), directly or right after fill_pattern
TVerify ==
    /\ tpc \in {"start", "filled"}
    /\ tres' = verify_pattern(tbuf, tsize)
    /\ tpc' = IF tpc = "filled" THEN "roundtrip" ELSE "verified"
    /\ UNCHANGED <<tbuf, tsize, notPat>>

NextPat == TFill \/ TVerify


\* ---------------------------------------------------------------------
\* SpecShm: shm_bench.c
\* ---------------------------------------------------------------------

\* size_t max_size = TEST_SIZES[NUM_TEST_SIZES - 1];
shm_max_size == TEST_SIZES[NUM_TEST_SIZES]

\* the calls of the setup that can fail, in program order
SetupCalls == <<"shm_open ctrl", "ftruncate ctrl", "mmap ctrl",
                "shm_open data", "ftruncate data", "mmap data">>

\* the calls whose result is not tested: ctrl = mmap(...) is followed at
\* once by memset(ctrl, 0, ...), which faults on MAP_FAILED
UncheckedCalls == {"mmap ctrl"}

\* memset(ctrl, 0, sizeof(shm_control_t))
ZeroCtrl == [phase |-> 0, data_size |-> 0, iteration |-> 0,
             copy_time |-> 0, verify_err |-> 0]

ShmIdle ==
    /\ ppc = "off" /\ cpc = "off"
    /\ psetup = 0 /\ pexit = -1 /\ cexit = -1
    /\ ctrl = ZeroCtrl
    /\ shm = <<>> /\ local_buf = <<>>
    /\ si = 0 /\ r = 0 /\ csize = 0 /\ cerr = 0
    /\ ppend = {} /\ cpend = {}
    /\ elapsed = 0 /\ times = <<>>
    /\ samples = <<>> /\ summaries = 0 /\ reports = <<>>
    /\ posted = 0 /\ copies = 0 /\ verifies = <<>>

InitShmVars ==
    /\ ppc = "p_setup" /\ cpc = "c_none"
    /\ psetup = 1 /\ pexit = -1 /\ cexit = -1
    /\ ctrl = ZeroCtrl
    /\ shm = Bytes(shm_max_size, 0)
    /\ local_buf = Bytes(shm_max_size, 0)
    /\ si = 1 /\ r = 0 /\ csize = 0 /\ cerr = 0
    /\ ppend = {} /\ cpend = {}
    /\ elapsed = 0 /\ times = <<>>
    /\ samples = [k \in 1..NUM_TEST_SIZES |-> 0]
    /\ summaries = 0 /\ reports = <<>>
    /\ posted = 0 /\ copies = 0
    /\ verifies = [k \in 1..NUM_TEST_SIZES |-> 0]

InitShm == InitShmVars /\ PatIdle

\* index in TEST_SIZES of a size value (0 when it is not a table entry)
SizeIndex(sz) ==
    IF \E k \in 1..NUM_TEST_SIZES : TEST_SIZES[k] = sz
    THEN CHOOSE k \in 1..NUM_TEST_SIZES : TEST_SIZES[k] = sz
    ELSE 0

\* ----- parent -----

\* shm_open / ftruncate / mmap of the two regions, memset(ctrl, 0, ..) and
\* memset(shm_ptr, 0, max_size); a failing call whose result is tested ends
\* the program with code 1, the failing mmap of ctrl ends it in SIGSEGV
PSetup ==
    /\ ppc = "p_setup"
    /\ \E ok \in BOOLEAN :
        IF ~ok
        THEN /\ IF SetupCalls[psetup] \in UncheckedCalls
                THEN ppc' = "p_fault" /\ pexit' = pexit
                ELSE ppc' = "p_exited" /\ pexit' = 1
             /\ UNCHANGED <<psetup, shm, ctrl>>
        ELSE /\ pexit' = pexit
             /\ IF psetup < Len(SetupCalls)
                THEN /\ psetup' = psetup + 1
                     /\ ppc' = ppc
                     /\ ctrl' = IF SetupCalls[psetup] = "mmap ctrl"
                                THEN ZeroCtrl ELSE ctrl
                     /\ shm' = shm
                ELSE /\ psetup' = psetup
                     /\ ppc' = "p_fork"
                     /\ shm' = memset(shm, 0, shm_max_size)
                     /\ ctrl' = ctrl
    /\ UNCHANGED <<cpc, cexit, local_buf, si, r, csize, cerr, ppend, cpend,
                   elapsed, times, samples, summaries, reports, posted,
                   copies, verifies, notShm>>

\* pid_t pid = fork(); any pid != 0 (also -1) takes the parent branch
PFork ==
    /\ ppc = "p_fork"
    /\ \E ok \in BOOLEAN : cpc' = IF ok THEN "c_alloc" ELSE "c_none"
    /\ ppc' = "p_for_si"
    /\ si' = 1
    /\ UNCHANGED <<psetup, pexit, cexit, ctrl, shm, local_buf, r, csize,
                   cerr, ppend, cpend, elapsed, times, samples, summaries,
                   reports, posted, copies, verifies, notShm>>

\* for (si = 0; si < NUM_TEST_SIZES; si++) { size = TEST_SIZES[si];
\*     if (size > max_size) break; ... for (r = 0; ...
\* after the loop the two stores of the termination request become pending
PForSi ==
    /\ ppc = "p_for_si"
    /\ IF si <= NUM_TEST_SIZES /\ TEST_SIZES[si] <= shm_max_size
       THEN /\ ppc' = "p_for_r"
            /\ r' = 0
            /\ times' = <<>>
            /\ ppend' = ppend
       ELSE /\ ppc' = "p_term"
            /\ ppend' = {"data_size", "phase"}
            /\ UNCHANGED <<r, times>>
    /\ UNCHANGED <<cpc, psetup, pexit, cexit, ctrl, shm, local_buf, si,
                   csize, cerr, cpend, elapsed, samples, summaries, reports,
                   posted, copies, verifies, notShm>>

\* r < REPEAT_COUNT, else print_summary and si++
PForR ==
    /\ ppc = "p_for_r"
    /\ IF r < REPEAT_COUNT
       THEN /\ ppc' = "p_fill"
            /\ UNCHANGED <<si, summaries>>
       ELSE /\ ppc' = "p_for_si"
            /\ summaries' = summaries + 1
            /\ si' = si + 1
    /\ UNCHANGED <<cpc, psetup, pexit, cexit, ctrl, shm, local_buf, r, csize,
                   cerr, ppend, cpend, elapsed, times, samples, reports,
                   posted, copies, verifies, notShm>>

\* fill_pattern(shm_ptr, size); the three stores that follow become pending
PFill ==
    /\ ppc = "p_fill"
    /\ shm' = fill_pattern(shm, TEST_SIZES[si])
    /\ ppc' = "p_publish"
    /\ ppend' = {"data_size", "iteration", "phase"}
    /\ UNCHANGED <<cpc, psetup, pexit, cexit, ctrl, local_buf, si, r, csize,
                   cerr, cpend, elapsed, times, samples, summaries, reports,
                   posted, copies, verifies, notShm>>

\* ctrl->data_size = size;
\* data_size and iteration are plain fields and only phase is volatile, so
\* the compiler may emit the three stores of lines 126-128 in any order
\* (gcc -O2 emits the store of phase first)
PStoreDataSize ==
    /\ ppc = "p_publish"
    /\ "data_size" \in ppend
    /\ ctrl' = [ctrl EXCEPT !.data_size = TEST_SIZES[si]]
    /\ ppend' = ppend \ {"data_size"}
    /\ UNCHANGED <<ppc, cpc, psetup, pexit, cexit, shm, local_buf, si, r,
                   csize, cerr, cpend, elapsed, times, samples, summaries,
                   reports, posted, copies, verifies, notShm>>

\* ctrl->iteration = r;
PStoreIteration ==
    /\ ppc = "p_publish"
    /\ "iteration" \in ppend
    /\ ctrl' = [ctrl EXCEPT !.iteration = r]
    /\ ppend' = ppend \ {"iteration"}
    /\ UNCHANGED <<ppc, cpc, psetup, pexit, cexit, shm, local_buf, si, r,
                   csize, cerr, cpend, elapsed, times, samples, summaries,
                   reports, posted, copies, verifies, notShm>>

\* ctrl->phase = 1;
PStorePhase ==
    /\ ppc = "p_publish"
    /\ "phase" \in ppend
    /\ ctrl' = [ctrl EXCEPT !.phase = 1]
    /\ ppend' = ppend \ {"phase"}
    /\ posted' = posted + 1
    /\ UNCHANGED <<ppc, cpc, psetup, pexit, cexit, shm, local_buf, si, r,
                   csize, cerr, cpend, elapsed, times, samples, summaries,
                   reports, copies, verifies, notShm>>

\* mutant: the parent does not wait for phase 2
PWaitNoWait ==
    /\ ppc = "p_publish"
    /\ ppend = {}
    /\ ppc' = "p_read_time"
    /\ UNCHANGED <<cpc, psetup, pexit, cexit, ctrl, shm, local_buf, si, r,
                   csize, cerr, ppend, cpend, elapsed, times, samples,
                   summaries, reports, posted, copies, verifies, notShm>>

\* while (ctrl->phase != 2) usleep(100);
PWait ==
    /\ ppc = "p_publish"
    /\ ppend = {}
    /\ ctrl.phase = 2
    /\ ppc' = "p_read_time"
    /\ UNCHANGED <<cpc, psetup, pexit, cexit, ctrl, shm, local_buf, si, r,
                   csize, cerr, ppend, cpend, elapsed, times, samples,
                   summaries, reports, posted, copies, verifies, notShm>>

\* times[r] = ctrl->copy_time; print_result(...)
PReadTime ==
    /\ ppc = "p_read_time"
    /\ times' = Append(times, ctrl.copy_time)
    /\ samples' = [samples EXCEPT ![si] = @ + 1]
    /\ ppc' = "p_check"
    /\ UNCHANGED <<cpc, psetup, pexit, cexit, ctrl, shm, local_buf, si, r,
                   csize, cerr, ppend, cpend, elapsed, summaries, reports,
                   posted, copies, verifies, notShm>>

\* if (r == 0) { if (ctrl->verify_err) ... else ... }
PCheck ==
    /\ ppc = "p_check"
    /\ reports' = IF r = 0 THEN Append(reports, <<si, r, ctrl.verify_err>>)
                  ELSE reports
    /\ ppc' = "p_reset"
    /\ UNCHANGED <<cpc, psetup, pexit, cexit, ctrl, shm, local_buf, si, r,
                   csize, cerr, ppend, cpend, elapsed, times, samples,
                   summaries, posted, copies, verifies, notShm>>

\* ctrl->phase = 0; r++
PReset ==
    /\ ppc = "p_reset"
    /\ ctrl' = [ctrl EXCEPT !.phase = 0]
    /\ r' = r + 1
    /\ ppc' = "p_for_r"
    /\ UNCHANGED <<cpc, psetup, pexit, cexit, shm, local_buf, si, csize,
                   cerr, ppend, cpend, elapsed, times, samples, summaries,
                   reports, posted, copies, verifies, notShm>>

\* ctrl->data_size = 0;  (termination request; gcc -O2 emits it after the
\* store of phase)
PTermStoreSize ==
    /\ ppc = "p_term"
    /\ "data_size" \in ppend
    /\ ctrl' = [ctrl EXCEPT !.data_size = 0]
    /\ ppend' = ppend \ {"data_size"}
    /\ UNCHANGED <<ppc, cpc, psetup, pexit, cexit, shm, local_buf, si, r,
                   csize, cerr, cpend, elapsed, times, samples, summaries,
                   reports, posted, copies, verifies, notShm>>

\* ctrl->phase = 1;  (termination request)
PTermStorePhase ==
    /\ ppc = "p_term"
    /\ "phase" \in ppend
    /\ ctrl' = [ctrl EXCEPT !.phase = 1]
    /\ ppend' = ppend \ {"phase"}
    /\ UNCHANGED <<ppc, cpc, psetup, pexit, cexit, shm, local_buf, si, r,
                   csize, cerr, cpend, elapsed, times, samples, summaries,
                   reports, posted, copies, verifies, notShm>>

\* wait(NULL): returns when the child has exited (or there is no child)
PJoin ==
    /\ ppc = "p_term"
    /\ ppend = {}
    /\ cpc \in {"c_none", "c_exited"}
    /\ ppc' = "p_cleanup"
    /\ UNCHANGED <<cpc, psetup, pexit, cexit, ctrl, shm, local_buf, si, r,
                   csize, cerr, ppend, cpend, elapsed, times, samples,
                   summaries, reports, posted, copies, verifies, notShm>>

\* munmap, shm_unlink; return 0
PCleanup ==
    /\ ppc = "p_cleanup"
    /\ ppc' = "p_exited"
    /\ pexit' = 0
    /\ UNCHANGED <<cpc, psetup, cexit, ctrl, shm, local_buf, si, r, csize,
                   cerr, ppend, cpend, elapsed, times, samples, summaries,
                   reports, posted, copies, verifies, notShm>>

\* ----- child -----

\* local_buf = alloc_aligned(max_size); if (!local_buf) _exit(1);
\* memset(local_buf, 0, max_size)
CAlloc ==
    /\ cpc = "c_alloc"
    /\ \E ok \in BOOLEAN :
        IF ok
        THEN /\ local_buf' = Bytes(shm_max_size, 0)
             /\ cpc' = "c_wait"
             /\ cexit' = cexit
        ELSE /\ cpc' = "c_exited"
             /\ cexit' = 1
             /\ local_buf' = local_buf
    /\ UNCHANGED <<ppc, psetup, pexit, ctrl, shm, si, r, csize, cerr, ppend,
                   cpend, elapsed, times, samples, summaries, reports,
                   posted, copies, verifies, notShm>>

\* mutant: the child does not wait for phase == 1
CWaitNoWait ==
    /\ cpc = "c_wait"
    /\ cpend = {}
    /\ cpc' = "c_read_size"
    /\ UNCHANGED <<ppc, psetup, pexit, cexit, ctrl, shm, local_buf, si, r,
                   csize, cerr, ppend, cpend, elapsed, times, samples,
                   summaries, reports, posted, copies, verifies, notShm>>

\* while (ctrl->phase != 1) usleep(100);
CWait ==
    /\ cpc = "c_wait"
    /\ cpend = {}
    /\ ctrl.phase = 1
    /\ cpc' = "c_read_size"
    /\ UNCHANGED <<ppc, psetup, pexit, cexit, ctrl, shm, local_buf, si, r,
                   csize, cerr, ppend, cpend, elapsed, times, samples,
                   summaries, reports, posted, copies, verifies, notShm>>

\* size = ctrl->data_size; if (size == 0) break;
CReadSize ==
    /\ cpc = "c_read_size"
    /\ csize' = ctrl.data_size
    /\ cpc' = IF ctrl.data_size = 0 THEN "c_free" ELSE "c_clear"
    /\ UNCHANGED <<ppc, psetup, pexit, cexit, ctrl, shm, local_buf, si, r,
                   cerr, ppend, cpend, elapsed, times, samples, summaries,
                   reports, posted, copies, verifies, notShm>>

\* memset(local_buf, 0, size)
CClear ==
    /\ cpc = "c_clear"
    /\ local_buf' = memset(local_buf, 0, csize)
    /\ cpc' = "c_t0"
    /\ UNCHANGED <<ppc, psetup, pexit, cexit, ctrl, shm, si, r, csize, cerr,
                   ppend, cpend, elapsed, times, samples, summaries, reports,
                   posted, copies, verifies, notShm>>

\* t0 = get_time_sec()
CT0 ==
    /\ cpc = "c_t0"
    /\ cpc' = "c_memcpy"
    /\ UNCHANGED <<ppc, psetup, pexit, cexit, ctrl, shm, local_buf, si, r,
                   csize, cerr, ppend, cpend, elapsed, times, samples,
                   summaries, reports, posted, copies, verifies, notShm>>

\* memcpy(local_buf, shm_ptr, size)
CMemcpy ==
    /\ cpc = "c_memcpy"
    /\ local_buf' = memcpy(local_buf, shm, csize)
    /\ copies' = copies + 1
    /\ cpc' = "c_t1"
    /\ UNCHANGED <<ppc, psetup, pexit, cexit, ctrl, shm, si, r, csize, cerr,
                   ppend, cpend, elapsed, times, samples, summaries, reports,
                   posted, verifies, notShm>>

\* t1 = get_time_sec(); the elapsed time t1 - t0 is identified by the
\* number of the copy it measured
CT1 ==
    /\ cpc = "c_t1"
    /\ elapsed' = copies
    /\ cpc' = "c_store_time"
    /\ UNCHANGED <<ppc, psetup, pexit, cexit, ctrl, shm, local_buf, si, r,
                   csize, cerr, ppend, cpend, times, samples, summaries,
                   reports, posted, copies, verifies, notShm>>

\* ctrl->copy_time = t1 - t0;
CStoreTime ==
    /\ cpc = "c_store_time"
    /\ ctrl' = [ctrl EXCEPT !.copy_time = elapsed]
    /\ cpc' = "c_verify"
    /\ UNCHANGED <<ppc, psetup, pexit, cexit, shm, local_buf, si, r, csize,
                   cerr, ppend, cpend, elapsed, times, samples, summaries,
                   reports, posted, copies, verifies, notShm>>

\* verify_pattern(local_buf, size); the stores of verify_err and of phase
\* that follow become pending
CVerify ==
    /\ cpc = "c_verify"
    /\ cerr' = verify_pattern(local_buf, csize)
    /\ verifies' = [verifies EXCEPT ![SizeIndex(csize)] = @ + 1]
    /\ cpend' = {"verify_err", "phase"}
    /\ cpc' = "c_wait"
    /\ UNCHANGED <<ppc, psetup, pexit, cexit, ctrl, shm, local_buf, si, r,
                   csize, ppend, elapsed, times, samples, summaries, reports,
                   posted, copies, notShm>>

\* ctrl->verify_err = ...;  (a plain field: gcc -O2 emits the store of 0
\* after the store of phase)
CStoreVerify ==
    /\ "verify_err" \in cpend
    /\ ctrl' = [ctrl EXCEPT !.verify_err = cerr]
    /\ cpend' = cpend \ {"verify_err"}
    /\ UNCHANGED <<ppc, cpc, psetup, pexit, cexit, shm, local_buf, si, r,
                   csize, cerr, ppend, elapsed, times, samples, summaries,
                   reports, posted, copies, verifies, notShm>>

\* ctrl->phase = 2;
CStorePhase ==
    /\ "phase" \in cpend
    /\ ctrl' = [ctrl EXCEPT !.phase = 2]
    /\ cpend' = cpend \ {"phase"}
    /\ UNCHANGED <<ppc, cpc, psetup, pexit, cexit, shm, local_buf, si, r,
                   csize, cerr, ppend, elapsed, times, samples, summaries,
                   reports, posted, copies, verifies, notShm>>

\* free(local_buf); _exit(0);
CFree ==
    /\ cpc = "c_free"
    /\ cpc' = "c_exited"
    /\ cexit' = 0
    /\ UNCHANGED <<ppc, psetup, pexit, ctrl, shm, local_buf, si, r, csize,
                   cerr, ppend, cpend, elapsed, times, samples, summaries,
                   reports, posted, copies, verifies, notShm>>

Parent ==
    \/ PSetup \/ PFork \/ PForSi \/ PForR \/ PFill
    \/ PStoreDataSize \/ PStoreIteration \/ PStorePhase
    \/ PWait \/ PReadTime \/ PCheck \/ PReset
    \/ PTermStoreSize \/ PTermStorePhase \/ PJoin \/ PCleanup

Child ==
    \/ CAlloc \/ CWait \/ CReadSize \/ CClear \/ CT0 \/ CMemcpy \/ CT1
    \/ CStoreTime \/ CVerify \/ CStoreVerify \/ CStorePhase \/ CFree

NextShm == Parent \/ Child

\* ---------------------------------------------------------------------
\* SpecXp: xpmem_exporter.c and xpmem_importer.c
\* ---------------------------------------------------------------------

\* values of max_size: argv[1] = 0, a table entry, between two entries, and
\* the default TEST_SIZES[NUM_TEST_SIZES - 1]
MaxSizeArgs == {0, TEST_SIZES[2], TEST_SIZES[2] + TEST_SIZES[1],
                TEST_SIZES[NUM_TEST_SIZES]}

\* sizeof(uint64_t)
WordSize == 8

\* descriptor records an earlier run may have left in SEGID_FILE: a complete
\* record and one without the process id
StaleRecords == {<<"old", TEST_SIZES[NUM_TEST_SIZES], "oldpid">>,
                 <<"old", TEST_SIZES[NUM_TEST_SIZES]>>}

\* the benchmark methods of the importer
Methods == {"xpmem-cpy", "xpmem-dir", "LOCAL-cpy"}

NoRows == [k \in 1..NUM_TEST_SIZES |-> 0]

\* the value of nfields before fscanf has been called
NotCalled == -2

XpIdle ==
    /\ epc = "off" /\ ipc = "off"
    /\ e_max_size = 0 /\ g_running = 1 /\ handler = FALSE
    /\ eexit = -1 /\ iexit = -1
    /\ segid_file = 0 /\ fcontent = <<>>
    /\ ready_file = "none" /\ done_file = "none"
    /\ seg_live = FALSE /\ shared_buf = <<>>
    /\ fp = 0 /\ i_segid = "" /\ i_max_size = 0
    /\ attached = FALSE
    /\ ilocal = <<>> /\ lsrc = <<>> /\ ldst = <<>>
    /\ isi = 0 /\ ir = 0 /\ ierr = 0 /\ itimes = 0
    /\ rows = <<>> /\ isummaries = 0 /\ iverifies = <<>>
    /\ ireports = <<>> /\ icopy_live = TRUE /\ issued = {}
    /\ ready_seen = ""
    /\ done_seen = ""
    /\ ifailed = FALSE
    /\ nfields = NotCalled
    /\ itouched = 0
    /\ nready = 0
    /\ ndone = 0
    /\ clean_start = FALSE

\* both programs have been started; marker files of an earlier run may exist
InitXpVars ==
    /\ epc = "e_signal" /\ ipc = "i_wait"
    /\ e_max_size \in MaxSizeArgs
    /\ g_running = 1 /\ handler = FALSE
    /\ eexit = -1 /\ iexit = -1
    /\ segid_file \in {0, 1}
    /\ \E rec \in StaleRecords :
         fcontent = IF segid_file = 1 THEN <<rec, <<>> >>
                    ELSE << <<>>, <<>> >>
    /\ ready_file \in {"none", "stale"}
    /\ done_file \in {"none", "stale"}
    /\ seg_live = FALSE /\ shared_buf = <<>>
    /\ fp = 0 /\ i_segid = "" /\ i_max_size = 0
    /\ attached = FALSE
    /\ ilocal = <<>> /\ lsrc = <<>> /\ ldst = <<>>
    /\ isi = 1 /\ ir = 0 /\ ierr = 0 /\ itimes = 0
    /\ rows = [m \in Methods |-> NoRows]
    /\ isummaries = 0 /\ iverifies = NoRows
    /\ ireports = <<>> /\ icopy_live = TRUE /\ issued = {}
    /\ ready_seen = ""
    /\ done_seen = ""
    /\ ifailed = FALSE
    /\ nfields = NotCalled
    /\ itouched = 0
    /\ nready = 0
    /\ ndone = 0
    /\ clean_start = (segid_file = 0 /\ ready_file = "none" /\ done_file = "none")

InitXp == InitXpVars /\ PatIdle /\ ShmIdle

\* ----- common.h: marker files -----

\* signal_file(path): open(path, O_CREAT | O_WRONLY) keeps an existing file
signal_file(f) == IF f = "none" THEN "run" ELSE f

\* ----- exporter -----

\* SIGINT is delivered to the exporter: sigint_handler clears g_running;
\* before signal() has installed the handler the default action ends the process
Sigint ==
    /\ epc \notin {"off", "e_exited", "e_killed"}
    /\ g_running = 1
    /\ IF handler
       THEN /\ g_running' = 0
            /\ epc' = epc
       ELSE /\ epc' = "e_killed"
            /\ g_running' = g_running
    /\ UNCHANGED <<ipc, e_max_size, handler, eexit, iexit, segid_file,
                   fcontent, ready_file, done_file, seg_live, shared_buf,
                   fp, i_segid, i_max_size, attached, ilocal, lsrc, ldst,
                   isi, ir, ierr, itimes, rows, isummaries, iverifies,
                   ireports, icopy_live, issued, ready_seen, done_seen,
                   ifailed, nfields, itouched, nready, ndone, clean_start,
                   notXp>>

\* signal(SIGINT, sigint_handler)
ESignal ==
    /\ epc = "e_signal"
    /\ handler' = TRUE
    /\ epc' = "e_unlink_segid"
    /\ UNCHANGED <<ipc, e_max_size, g_running, eexit, iexit, segid_file,
                   fcontent, ready_file, done_file, seg_live, shared_buf,
                   fp, i_segid, i_max_size, attached, ilocal, lsrc, ldst,
                   isi, ir, ierr, itimes, rows, isummaries, iverifies,
                   ireports, icopy_live, issued, ready_seen, done_seen,
                   ifailed, nfields, itouched, nready, ndone, clean_start,
                   notXp>>

\* cleanup_sync_files(): unlink(SEGID_FILE), at the start and the end of main
EUnlinkSegid ==
    /\ epc \in {"e_unlink_segid", "e_end_segid"}
    /\ segid_file' = 0
    /\ epc' = IF epc = "e_unlink_segid" THEN "e_unlink_ready" ELSE "e_end_ready"
    /\ UNCHANGED <<ipc, e_max_size, g_running, handler, eexit, iexit,
                   fcontent, ready_file, done_file, seg_live, shared_buf,
                   fp, i_segid, i_max_size, attached, ilocal, lsrc, ldst,
                   isi, ir, ierr, itimes, rows, isummaries, iverifies,
                   ireports, icopy_live, issued, ready_seen, done_seen,
                   ifailed, nfields, itouched, nready, ndone, clean_start,
                   notXp>>

\* cleanup_sync_files(): unlink(READY_FILE)
EUnlinkReady ==
    /\ epc \in {"e_unlink_ready", "e_end_ready"}
    /\ ready_file' = "none"
    /\ epc' = IF epc = "e_unlink_ready" THEN "e_unlink_done" ELSE "e_end_done"
    /\ UNCHANGED <<ipc, e_max_size, g_running, handler, eexit, iexit,
                   segid_file, fcontent, done_file, seg_live, shared_buf,
                   fp, i_segid, i_max_size, attached, ilocal, lsrc, ldst,
                   isi, ir, ierr, itimes, rows, isummaries, iverifies,
                   ireports, icopy_live, issued, ready_seen, done_seen,
                   ifailed, nfields, itouched, nready, ndone, clean_start,
                   notXp>>

\* cleanup_sync_files(): unlink(DONE_FILE); at the end of main: return 0
EUnlinkDone ==
    /\ epc \in {"e_unlink_done", "e_end_done"}
    /\ done_file' = "none"
    /\ IF epc = "e_unlink_done"
       THEN /\ epc' = "e_alloc"
            /\ eexit' = eexit
       ELSE /\ epc' = "e_exited"
            /\ eexit' = 0
    /\ UNCHANGED <<ipc, e_max_size, g_running, handler, iexit, segid_file,
                   fcontent, ready_file, seg_live, shared_buf, fp, i_segid,
                   i_max_size, attached, ilocal, lsrc, ldst, isi, ir, ierr,
                   itimes, rows, isummaries, iverifies, ireports,
                   icopy_live, issued, ready_seen, done_seen, ifailed,
                   nfields, itouched, nready, ndone, clean_start, notXp>>

\* shared_buf = alloc_aligned(max_size); if (!shared_buf) return 1;
\* memset(shared_buf, 0, max_size); fill_pattern(shared_buf, max_size)
EAlloc ==
    /\ epc = "e_alloc"
    /\ \E ok \in BOOLEAN :
        IF ok
        THEN /\ shared_buf' = fill_pattern(Bytes(e_max_size, 0), e_max_size)
             /\ epc' = "e_make"
             /\ eexit' = eexit
        ELSE /\ epc' = "e_exited"
             /\ eexit' = 1
             /\ shared_buf' = shared_buf
    /\ UNCHANGED <<ipc, e_max_size, g_running, handler, iexit, segid_file,
                   fcontent, ready_file, done_file, seg_live, fp, i_segid,
                   i_max_size, attached, ilocal, lsrc, ldst, isi, ir, ierr,
                   itimes, rows, isummaries, iverifies, ireports,
                   icopy_live, issued, ready_seen, done_seen, ifailed,
                   nfields, itouched, nready, ndone, clean_start, notXp>>

\* segid = xpmem_make(...); if (segid == -1) { free(shared_buf); return 1; }
EMake ==
    /\ epc = "e_make"
    /\ \E ok \in BOOLEAN :
        IF ok
        THEN /\ seg_live' = TRUE
             /\ epc' = "e_fopen"
             /\ UNCHANGED <<eexit, shared_buf>>
        ELSE /\ shared_buf' = <<>>
             /\ epc' = "e_exited"
             /\ eexit' = 1
             /\ seg_live' = seg_live
    /\ UNCHANGED <<ipc, e_max_size, g_running, handler, iexit, segid_file,
                   fcontent, ready_file, done_file, fp, i_segid, i_max_size,
                   attached, ilocal, lsrc, ldst, isi, ir, ierr, itimes,
                   rows, isummaries, iverifies, ireports, icopy_live,
                   issued, ready_seen, done_seen, ifailed, nfields,
                   itouched, nready, ndone, clean_start, notXp>>

\* mutant: the ready marker is created when the descriptor is opened
EFopenSignals ==
    /\ epc = "e_fopen"
    /\ \E ok \in BOOLEAN :
        IF ok
        THEN /\ segid_file' = IF segid_file = 0 THEN 2 ELSE segid_file
             /\ fcontent' = [fcontent EXCEPT ![segid_file'] = <<>>]
             /\ epc' = "e_fclose"
             /\ ready_file' = signal_file(ready_file)
             /\ nready' = nready + 1
             /\ UNCHANGED <<eexit, seg_live, shared_buf>>
        ELSE /\ seg_live' = FALSE
             /\ shared_buf' = <<>>
             /\ epc' = "e_exited"
             /\ eexit' = 1
             /\ UNCHANGED <<segid_file, fcontent, ready_file, nready>>
    /\ UNCHANGED <<ipc, e_max_size, g_running, handler, iexit,
                   done_file, fp, i_segid, i_max_size, attached, ilocal,
                   lsrc, ldst, isi, ir, ierr, itimes, rows, isummaries,
                   iverifies, ireports, icopy_live, issued, ready_seen,
                   done_seen, ifailed, nfields, itouched, ndone,
                   clean_start, notXp>>

\* fp = fopen(SEGID_FILE, "w"): creates the file empty (or truncates it);
\* if (!fp) { xpmem_remove(segid); free(shared_buf); return 1; }
EFopen ==
    /\ epc = "e_fopen"
    /\ \E ok \in BOOLEAN :
        IF ok
        THEN /\ segid_file' = IF segid_file = 0 THEN 2 ELSE segid_file
             /\ fcontent' = [fcontent EXCEPT ![segid_file'] = <<>>]
             /\ epc' = "e_fclose"
             /\ UNCHANGED <<eexit, seg_live, shared_buf>>
        ELSE /\ seg_live' = FALSE
             /\ shared_buf' = <<>>
             /\ epc' = "e_exited"
             /\ eexit' = 1
             /\ UNCHANGED <<segid_file, fcontent>>
    /\ UNCHANGED <<ipc, e_max_size, g_running, handler, iexit, ready_file,
                   done_file, fp, i_segid, i_max_size, attached, ilocal,
                   lsrc, ldst, isi, ir, ierr, itimes, rows, isummaries,
                   iverifies, ireports, icopy_live, issued, ready_seen,
                   done_seen, ifailed, nfields, itouched, nready, ndone,
                   clean_start, notXp>>

\* fprintf(fp, "%lld\n%zu\n%d\n", segid, max_size, getpid()); fclose(fp):
\* the record reaches the file when the stream is flushed
EFclose ==
    /\ epc = "e_fclose"
    /\ fcontent' = [fcontent EXCEPT ![2] = <<"cur", e_max_size, "pid">>]
    /\ epc' = "e_ready"
    /\ UNCHANGED <<ipc, e_max_size, g_running, handler, eexit, iexit,
                   segid_file, ready_file, done_file, seg_live, shared_buf,
                   fp, i_segid, i_max_size, attached, ilocal, lsrc, ldst,
                   isi, ir, ierr, itimes, rows, isummaries, iverifies,
                   ireports, icopy_live, issued, ready_seen, done_seen,
                   ifailed, nfields, itouched, nready, ndone, clean_start,
                   notXp>>

\* signal_file(READY_FILE)
EReady ==
    /\ epc = "e_ready"
    /\ ready_file' = signal_file(ready_file)
    /\ epc' = "e_loop"
    /\ nready' = nready + 1
    /\ UNCHANGED <<ipc, e_max_size, g_running, handler, eexit, iexit,
                   segid_file, fcontent, done_file, seg_live, shared_buf,
                   fp, i_segid, i_max_size, attached, ilocal, lsrc, ldst,
                   isi, ir, ierr, itimes, rows, isummaries, iverifies,
                   ireports, icopy_live, issued, ready_seen, done_seen,
                   ifailed, nfields, itouched, ndone, clean_start, notXp>>

\* mutant: the wait loop does not test g_running
ELoopForever ==
    /\ epc = "e_loop"
    /\ epc' = "e_access"
    /\ UNCHANGED <<ipc, e_max_size, g_running, handler, eexit, iexit,
                   segid_file, fcontent, ready_file, done_file, seg_live,
                   shared_buf, fp, i_segid, i_max_size, attached, ilocal,
                   lsrc, ldst, isi, ir, ierr, itimes, rows, isummaries,
                   iverifies, ireports, icopy_live, issued, ready_seen,
                   done_seen, ifailed, nfields, itouched, nready, ndone,
                   clean_start, notXp>>

\* while (g_running) {
ELoop ==
    /\ epc = "e_loop"
    /\ epc' = IF g_running = 1 THEN "e_access" ELSE "e_remove"
    /\ UNCHANGED <<ipc, e_max_size, g_running, handler, eexit, iexit,
                   segid_file, fcontent, ready_file, done_file, seg_live,
                   shared_buf, fp, i_segid, i_max_size, attached, ilocal,
                   lsrc, ldst, isi, ir, ierr, itimes, rows, isummaries,
                   iverifies, ireports, icopy_live, issued, ready_seen,
                   done_seen, ifailed, nfields, itouched, nready, ndone,
                   clean_start, notXp>>

\* mutant: the test of access() is inverted
EAccessInverted ==
    /\ epc = "e_access"
    /\ epc' = IF done_file = "none" THEN "e_remove" ELSE "e_loop"
    /\ done_seen' = IF done_file # "none" THEN done_file ELSE done_seen
    /\ UNCHANGED <<ipc, e_max_size, g_running, handler, eexit, iexit,
                   segid_file, fcontent, ready_file, done_file, seg_live,
                   shared_buf, fp, i_segid, i_max_size, attached, ilocal,
                   lsrc, ldst, isi, ir, ierr, itimes, rows, isummaries,
                   iverifies, ireports, icopy_live, issued, ready_seen,
                   ifailed, nfields, itouched, nready, ndone, clean_start,
                   notXp>>

\* if (access(DONE_FILE, F_OK) == 0) break; usleep(100000); }
EAccess ==
    /\ epc = "e_access"
    /\ epc' = IF done_file # "none" THEN "e_remove" ELSE "e_loop"
    /\ done_seen' = IF done_file # "none" THEN done_file ELSE done_seen
    /\ UNCHANGED <<ipc, e_max_size, g_running, handler, eexit, iexit,
                   segid_file, fcontent, ready_file, done_file, seg_live,
                   shared_buf, fp, i_segid, i_max_size, attached, ilocal,
                   lsrc, ldst, isi, ir, ierr, itimes, rows, isummaries,
                   iverifies, ireports, icopy_live, issued, ready_seen,
                   ifailed, nfields, itouched, nready, ndone, clean_start,
                   notXp>>

\* xpmem_remove(segid)
ERemove ==
    /\ epc = "e_remove"
    /\ seg_live' = FALSE
    /\ epc' = "e_free"
    /\ UNCHANGED <<ipc, e_max_size, g_running, handler, eexit, iexit,
                   segid_file, fcontent, ready_file, done_file, shared_buf,
                   fp, i_segid, i_max_size, attached, ilocal, lsrc, ldst,
                   isi, ir, ierr, itimes, rows, isummaries, iverifies,
                   ireports, icopy_live, issued, ready_seen, done_seen,
                   ifailed, nfields, itouched, nready, ndone, clean_start,
                   notXp>>

\* free(shared_buf)
EFree ==
    /\ epc = "e_free"
    /\ shared_buf' = <<>>
    /\ epc' = "e_end_segid"
    /\ UNCHANGED <<ipc, e_max_size, g_running, handler, eexit, iexit,
                   segid_file, fcontent, ready_file, done_file, seg_live,
                   fp, i_segid, i_max_size, attached, ilocal, lsrc, ldst,
                   isi, ir, ierr, itimes, rows, isummaries, iverifies,
                   ireports, icopy_live, issued, ready_seen, done_seen,
                   ifailed, nfields, itouched, nready, ndone, clean_start,
                   notXp>>

\* ----- importer -----

\* size = TEST_SIZES[si]
ISize == TEST_SIZES[isi]

\* the importer ends with a setup failure: return 1
IFail == ipc' = "i_exited" /\ iexit' = 1

\* the outcomes of a read through attached_ptr.  While the segment exists
\* the read delivers the exporter's buffer.  After xpmem_remove and free the
\* pointer dangles: the read faults, or delivers the old bytes, or delivers
\* other bytes.
AttachedReads ==
    IF seg_live THEN {"live"} ELSE {"fault", "intact", "other"}

\* the bytes a read with the given outcome delivers
ReadBytes(outcome) ==
    IF outcome = "live" THEN shared_buf
    ELSE IF outcome = "intact"
         THEN fill_pattern(Bytes(i_max_size, 0), i_max_size)
         ELSE Bytes(i_max_size, 0)

\* wait_for_file(READY_FILE)
IWait ==
    /\ ipc = "i_wait"
    /\ ready_file # "none"
    /\ ipc' = "i_fopen"
    /\ ready_seen' = ready_file
    /\ UNCHANGED <<epc, e_max_size, g_running, handler, eexit, iexit,
                   segid_file, fcontent, ready_file, done_file, seg_live,
                   shared_buf, fp, i_segid, i_max_size, attached, ilocal,
                   lsrc, ldst, isi, ir, ierr, itimes, rows, isummaries,
                   iverifies, ireports, icopy_live, issued, done_seen,
                   ifailed, nfields, itouched, nready, ndone, clean_start,
                   notXp>>

\* fp = fopen(SEGID_FILE, "r"); if (!fp) return 1;
IFopen ==
    /\ ipc = "i_fopen"
    /\ IF segid_file = 0
       THEN /\ IFail
            /\ fp' = fp
       ELSE /\ fp' = segid_file
            /\ ipc' = "i_fscanf"
            /\ iexit' = iexit
    /\ ifailed' = (ipc' = "i_exited")
    /\ UNCHANGED <<epc, e_max_size, g_running, handler, eexit, segid_file,
                   fcontent, ready_file, done_file, seg_live, shared_buf,
                   i_segid, i_max_size, attached, ilocal, lsrc, ldst, isi,
                   ir, ierr, itimes, rows, isummaries, iverifies, ireports,
                   icopy_live, issued, ready_seen, done_seen, nfields,
                   itouched, nready, ndone, clean_start, notXp>>

\* fscanf(fp, "%lld\n%zu\n%d", ...): the number of fields converted, EOF
\* (-1) when the file ends before the first field
fscanf(rec) == IF Len(rec) = 0 THEN -1 ELSE Len(rec)

\* mutant: a descriptor with two fields is accepted
IFscanfTwo ==
    /\ ipc = "i_fscanf"
    /\ IF fscanf(fcontent[fp]) < 2
       THEN /\ IFail
            /\ UNCHANGED <<i_segid, i_max_size>>
       ELSE /\ i_segid' = fcontent[fp][1]
            /\ i_max_size' = fcontent[fp][2]
            /\ ipc' = "i_get"
            /\ iexit' = iexit
    /\ ifailed' = (ipc' = "i_exited")
    /\ nfields' = fscanf(fcontent[fp])
    /\ UNCHANGED <<epc, e_max_size, g_running, handler, eexit, segid_file,
                   fcontent, ready_file, done_file, seg_live, shared_buf,
                   fp, attached, ilocal, lsrc, ldst, isi, ir, ierr, itimes,
                   rows, isummaries, iverifies, ireports, icopy_live,
                   issued, ready_seen, done_seen, itouched, nready, ndone,
                   clean_start, notXp>>

\* if (fscanf(fp, "%lld\n%zu\n%d", ...) != 3) { fclose(fp); return 1; }
IFscanf ==
    /\ ipc = "i_fscanf"
    /\ IF fscanf(fcontent[fp]) # 3
       THEN /\ IFail
            /\ UNCHANGED <<i_segid, i_max_size>>
       ELSE /\ i_segid' = fcontent[fp][1]
            /\ i_max_size' = fcontent[fp][2]
            /\ ipc' = "i_get"
            /\ iexit' = iexit
    /\ ifailed' = (ipc' = "i_exited")
    /\ nfields' = fscanf(fcontent[fp])
    /\ UNCHANGED <<epc, e_max_size, g_running, handler, eexit, segid_file,
                   fcontent, ready_file, done_file, seg_live, shared_buf,
                   fp, attached, ilocal, lsrc, ldst, isi, ir, ierr, itimes,
                   rows, isummaries, iverifies, ireports, icopy_live,
                   issued, ready_seen, done_seen, itouched, nready, ndone,
                   clean_start, notXp>>

\* apid = xpmem_get(segid, ...); if (apid == -1) return 1;
\* succeeds only for the segment id of an existing segment
IGet ==
    /\ ipc = "i_get"
    /\ \E ok \in BOOLEAN :
        IF ok /\ seg_live /\ i_segid = "cur"
        THEN /\ ipc' = "i_attach"
             /\ iexit' = iexit
        ELSE IFail
    /\ ifailed' = (ipc' = "i_exited")
    /\ UNCHANGED <<epc, e_max_size, g_running, handler, eexit, segid_file,
                   fcontent, ready_file, done_file, seg_live, shared_buf,
                   fp, i_segid, i_max_size, attached, ilocal, lsrc, ldst,
                   isi, ir, ierr, itimes, rows, isummaries, iverifies,
                   ireports, icopy_live, issued, ready_seen, done_seen,
                   nfields, itouched, nready, ndone, clean_start, notXp>>

\* attached_ptr = xpmem_attach(addr, max_size, NULL);
\* if (attached_ptr == (void *)-1) { xpmem_release(apid); return 1; }
IAttach ==
    /\ ipc = "i_attach"
    /\ \E ok \in BOOLEAN :
        IF ok /\ seg_live
        THEN /\ attached' = TRUE
             /\ ipc' = "i_alloc"
             /\ iexit' = iexit
        ELSE /\ IFail
             /\ attached' = attached
    /\ ifailed' = (ipc' = "i_exited")
    /\ UNCHANGED <<epc, e_max_size, g_running, handler, eexit, segid_file,
                   fcontent, ready_file, done_file, seg_live, shared_buf,
                   fp, i_segid, i_max_size, ilocal, lsrc, ldst, isi, ir,
                   ierr, itimes, rows, isummaries, iverifies, ireports,
                   icopy_live, issued, ready_seen, done_seen, nfields,
                   itouched, nready, ndone, clean_start, notXp>>

\* local_buf = alloc_aligned(max_size) (content not initialised);
\* if (!local_buf) { xpmem_detach; xpmem_release; return 1; }
IAlloc ==
    /\ ipc = "i_alloc"
    /\ \E ok \in BOOLEAN :
        IF ok
        THEN /\ \E c \in {0, 170} : ilocal' = Bytes(i_max_size, c)
             /\ ipc' = "m_for_si"
             /\ isi' = 1
             /\ UNCHANGED <<iexit, attached>>
        ELSE /\ IFail
             /\ attached' = FALSE
             /\ UNCHANGED <<ilocal, isi>>
    /\ ifailed' = (ipc' = "i_exited")
    /\ UNCHANGED <<epc, e_max_size, g_running, handler, eexit, segid_file,
                   fcontent, ready_file, done_file, seg_live, shared_buf,
                   fp, i_segid, i_max_size, lsrc, ldst, ir, ierr, itimes,
                   rows, isummaries, iverifies, ireports, icopy_live,
                   issued, ready_seen, done_seen, nfields, itouched, nready,
                   ndone, clean_start, notXp>>

\* -- bench_xpmem_memcpy --

\* mutant: the loop also stops at a size equal to max_size
MForSiStrict ==
    /\ ipc = "m_for_si"
    /\ IF isi <= NUM_TEST_SIZES /\ TEST_SIZES[isi] < i_max_size
       THEN /\ ipc' = "m_for_r"
            /\ ir' = 0
            /\ itimes' = 0
            /\ isi' = isi
       ELSE /\ ipc' = "d_for_si"
            /\ isi' = 1
            /\ UNCHANGED <<ir, itimes>>
    /\ UNCHANGED <<epc, e_max_size, g_running, handler, eexit, iexit,
                   segid_file, fcontent, ready_file, done_file, seg_live,
                   shared_buf, fp, i_segid, i_max_size, attached, ilocal,
                   lsrc, ldst, ierr, rows, isummaries, iverifies, ireports,
                   icopy_live, issued, ready_seen, done_seen, ifailed,
                   nfields, itouched, nready, ndone, clean_start, notXp>>

\* for (si = 0; si < NUM_TEST_SIZES; si++) { size = TEST_SIZES[si];
\*     if (size > max_size) break;
MForSi ==
    /\ ipc = "m_for_si"
    /\ IF isi <= NUM_TEST_SIZES /\ TEST_SIZES[isi] <= i_max_size
       THEN /\ ipc' = "m_for_r"
            /\ ir' = 0
            /\ itimes' = 0
            /\ isi' = isi
       ELSE /\ ipc' = "d_for_si"
            /\ isi' = 1
            /\ UNCHANGED <<ir, itimes>>
    /\ UNCHANGED <<epc, e_max_size, g_running, handler, eexit, iexit,
                   segid_file, fcontent, ready_file, done_file, seg_live,
                   shared_buf, fp, i_segid, i_max_size, attached, ilocal,
                   lsrc, ldst, ierr, rows, isummaries, iverifies, ireports,
                   icopy_live, issued, ready_seen, done_seen, ifailed,
                   nfields, itouched, nready, ndone, clean_start, notXp>>

\* for (r = 0; r < REPEAT_COUNT; r++), else print_summary and si++
MForR ==
    /\ ipc = "m_for_r"
    /\ IF ir < REPEAT_COUNT
       THEN /\ ipc' = "m_clear"
            /\ UNCHANGED <<isi, isummaries>>
       ELSE /\ ipc' = "m_for_si"
            /\ isummaries' = isummaries + 1
            /\ isi' = isi + 1
    /\ UNCHANGED <<epc, e_max_size, g_running, handler, eexit, iexit,
                   segid_file, fcontent, ready_file, done_file, seg_live,
                   shared_buf, fp, i_segid, i_max_size, attached, ilocal,
                   lsrc, ldst, ir, ierr, itimes, rows, iverifies, ireports,
                   icopy_live, issued, ready_seen, done_seen, ifailed,
                   nfields, itouched, nready, ndone, clean_start, notXp>>

\* memset(local_buf, 0, size)
MClear ==
    /\ ipc = "m_clear"
    /\ ilocal' = memset(ilocal, 0, ISize)
    /\ ipc' = "m_t0"
    /\ UNCHANGED <<epc, e_max_size, g_running, handler, eexit, iexit,
                   segid_file, fcontent, ready_file, done_file, seg_live,
                   shared_buf, fp, i_segid, i_max_size, attached, lsrc,
                   ldst, isi, ir, ierr, itimes, rows, isummaries, iverifies,
                   ireports, icopy_live, issued, ready_seen, done_seen,
                   ifailed, nfields, itouched, nready, ndone, clean_start,
                   notXp>>

\* mutant: local_buf is cleared after t0 has been read
MT0Clears ==
    /\ ipc = "m_t0"
    /\ ipc' = "m_copy"
    /\ ilocal' = memset(ilocal, 0, i_max_size)
    /\ UNCHANGED <<epc, e_max_size, g_running, handler, eexit, iexit,
                   segid_file, fcontent, ready_file, done_file, seg_live,
                   shared_buf, fp, i_segid, i_max_size, attached,
                   lsrc, ldst, isi, ir, ierr, itimes, rows, isummaries,
                   iverifies, ireports, icopy_live, issued, ready_seen,
                   done_seen, ifailed, nfields, itouched, nready, ndone,
                   clean_start, notXp>>

\* t0 = get_time_sec()
MT0 ==
    /\ ipc = "m_t0"
    /\ ipc' = "m_copy"
    /\ UNCHANGED <<epc, e_max_size, g_running, handler, eexit, iexit,
                   segid_file, fcontent, ready_file, done_file, seg_live,
                   shared_buf, fp, i_segid, i_max_size, attached, ilocal,
                   lsrc, ldst, isi, ir, ierr, itimes, rows, isummaries,
                   iverifies, ireports, icopy_live, issued, ready_seen,
                   done_seen, ifailed, nfields, itouched, nready, ndone,
                   clean_start, notXp>>

\* mutant: the copy is one byte short
MCopyShort ==
    /\ ipc = "m_copy"
    /\ \E outcome \in AttachedReads :
        IF outcome = "fault"
        THEN /\ ipc' = "i_fault"
             /\ UNCHANGED <<ilocal, issued>>
        ELSE /\ ilocal' = memcpy(ilocal, ReadBytes(outcome), ISize - 1)
             /\ issued' = issued \cup {<<"xpmem-cpy", ISize, i_max_size>>}
             /\ ipc' = "m_t1"
    /\ icopy_live' = seg_live
    /\ itouched' = IF ipc' = "i_fault" \/ itouched >= ISize
                    THEN itouched ELSE ISize
    /\ UNCHANGED <<epc, e_max_size, g_running, handler, eexit, iexit,
                   segid_file, fcontent, ready_file, done_file, seg_live,
                   shared_buf, fp, i_segid, i_max_size, attached, lsrc,
                   ldst, isi, ir, ierr, itimes, rows, isummaries, iverifies,
                   ireports, ready_seen, done_seen, ifailed, nfields,
                   nready, ndone, clean_start, notXp>>

\* memcpy(local_buf, attached_ptr, size)
MCopy ==
    /\ ipc = "m_copy"
    /\ \E outcome \in AttachedReads :
        IF outcome = "fault"
        THEN /\ ipc' = "i_fault"
             /\ UNCHANGED <<ilocal, issued>>
        ELSE /\ ilocal' = memcpy(ilocal, ReadBytes(outcome), ISize)
             /\ issued' = issued \cup {<<"xpmem-cpy", ISize, i_max_size>>}
             /\ ipc' = "m_t1"
    /\ icopy_live' = seg_live
    /\ itouched' = IF ipc' = "i_fault" \/ itouched >= ISize
                    THEN itouched ELSE ISize
    /\ UNCHANGED <<epc, e_max_size, g_running, handler, eexit, iexit,
                   segid_file, fcontent, ready_file, done_file, seg_live,
                   shared_buf, fp, i_segid, i_max_size, attached, lsrc,
                   ldst, isi, ir, ierr, itimes, rows, isummaries, iverifies,
                   ireports, ready_seen, done_seen, ifailed, nfields,
                   nready, ndone, clean_start, notXp>>

\* t1 = get_time_sec(); times[r] = t1 - t0; print_result("xpmem-cpy", ...)
MT1 ==
    /\ ipc = "m_t1"
    /\ itimes' = itimes + 1
    /\ rows' = [rows EXCEPT !["xpmem-cpy"][isi] = @ + 1]
    /\ ipc' = "m_verify"
    /\ UNCHANGED <<epc, e_max_size, g_running, handler, eexit, iexit,
                   segid_file, fcontent, ready_file, done_file, seg_live,
                   shared_buf, fp, i_segid, i_max_size, attached, ilocal,
                   lsrc, ldst, isi, ir, ierr, isummaries, iverifies,
                   ireports, icopy_live, issued, ready_seen, done_seen,
                   ifailed, nfields, itouched, nready, ndone, clean_start,
                   notXp>>

\* if (r == 0) { err = verify_pattern(local_buf, size); report }  r++
MVerify ==
    /\ ipc = "m_verify"
    /\ IF ir = 0
       THEN /\ ierr' = verify_pattern(ilocal, ISize)
            /\ iverifies' = [iverifies EXCEPT ![isi] = @ + 1]
            /\ ireports' = Append(ireports, <<ierr', icopy_live>>)
       ELSE UNCHANGED <<ierr, iverifies, ireports>>
    /\ ir' = ir + 1
    /\ ipc' = "m_for_r"
    /\ UNCHANGED <<epc, e_max_size, g_running, handler, eexit, iexit,
                   segid_file, fcontent, ready_file, done_file, seg_live,
                   shared_buf, fp, i_segid, i_max_size, attached, ilocal,
                   lsrc, ldst, isi, itimes, rows, isummaries, icopy_live,
                   issued, ready_seen, done_seen, ifailed, nfields,
                   itouched, nready, ndone, clean_start, notXp>>

\* -- bench_xpmem_direct --

\* for (si ...) { size = TEST_SIZES[si]; if (size > max_size) break;
DForSi ==
    /\ ipc = "d_for_si"
    /\ IF isi <= NUM_TEST_SIZES /\ TEST_SIZES[isi] <= i_max_size
       THEN /\ ipc' = "d_for_r"
            /\ ir' = 0
            /\ itimes' = 0
            /\ isi' = isi
       ELSE /\ ipc' = "l_alloc"
            /\ isi' = 1
            /\ UNCHANGED <<ir, itimes>>
    /\ UNCHANGED <<epc, e_max_size, g_running, handler, eexit, iexit,
                   segid_file, fcontent, ready_file, done_file, seg_live,
                   shared_buf, fp, i_segid, i_max_size, attached, ilocal,
                   lsrc, ldst, ierr, rows, isummaries, iverifies, ireports,
                   icopy_live, issued, ready_seen, done_seen, ifailed,
                   nfields, itouched, nready, ndone, clean_start, notXp>>

\* for (r = 0; r < REPEAT_COUNT; r++), else print_summary and si++
DForR ==
    /\ ipc = "d_for_r"
    /\ IF ir < REPEAT_COUNT
       THEN /\ ipc' = "d_t0"
            /\ UNCHANGED <<isi, isummaries>>
       ELSE /\ ipc' = "d_for_si"
            /\ isummaries' = isummaries + 1
            /\ isi' = isi + 1
    /\ UNCHANGED <<epc, e_max_size, g_running, handler, eexit, iexit,
                   segid_file, fcontent, ready_file, done_file, seg_live,
                   shared_buf, fp, i_segid, i_max_size, attached, ilocal,
                   lsrc, ldst, ir, ierr, itimes, rows, iverifies, ireports,
                   icopy_live, issued, ready_seen, done_seen, ifailed,
                   nfields, itouched, nready, ndone, clean_start, notXp>>

\* checksum = 0; count = size / sizeof(uint64_t); t0 = get_time_sec()
DT0 ==
    /\ ipc = "d_t0"
    /\ ipc' = "d_read"
    /\ UNCHANGED <<epc, e_max_size, g_running, handler, eexit, iexit,
                   segid_file, fcontent, ready_file, done_file, seg_live,
                   shared_buf, fp, i_segid, i_max_size, attached, ilocal,
                   lsrc, ldst, isi, ir, ierr, itimes, rows, isummaries,
                   iverifies, ireports, icopy_live, issued, ready_seen,
                   done_seen, ifailed, nfields, itouched, nready, ndone,
                   clean_start, notXp>>

\* for (i = 0; i < count; i++) checksum += p[i];  (reads attached_ptr)
DRead ==
    /\ ipc = "d_read"
    /\ \E outcome \in AttachedReads :
        IF outcome = "fault" /\ ISize \div WordSize > 0
        THEN /\ ipc' = "i_fault"
             /\ issued' = issued
        ELSE /\ issued' = issued \cup
                    {<<"xpmem-dir", (ISize \div WordSize) * WordSize, i_max_size>>}
             /\ ipc' = "d_t1"
    /\ icopy_live' = seg_live
    /\ itouched' = IF ipc' = "i_fault"
                       \/ itouched >= (ISize \div WordSize) * WordSize
                    THEN itouched ELSE (ISize \div WordSize) * WordSize
    /\ UNCHANGED <<epc, e_max_size, g_running, handler, eexit, iexit,
                   segid_file, fcontent, ready_file, done_file, seg_live,
                   shared_buf, fp, i_segid, i_max_size, attached, ilocal,
                   lsrc, ldst, isi, ir, ierr, itimes, rows, isummaries,
                   iverifies, ireports, ready_seen, done_seen, ifailed,
                   nfields, nready, ndone, clean_start, notXp>>

\* t1 = get_time_sec(); times[r] = t1 - t0; print_result("xpmem-dir", ...); r++
DT1 ==
    /\ ipc = "d_t1"
    /\ itimes' = itimes + 1
    /\ rows' = [rows EXCEPT !["xpmem-dir"][isi] = @ + 1]
    /\ ir' = ir + 1
    /\ ipc' = "d_for_r"
    /\ UNCHANGED <<epc, e_max_size, g_running, handler, eexit, iexit,
                   segid_file, fcontent, ready_file, done_file, seg_live,
                   shared_buf, fp, i_segid, i_max_size, attached, ilocal,
                   lsrc, ldst, isi, ierr, isummaries, iverifies, ireports,
                   icopy_live, issued, ready_seen, done_seen, ifailed,
                   nfields, itouched, nready, ndone, clean_start, notXp>>

\* -- bench_local_memcpy --

\* src = alloc_aligned(max_size); dst = alloc_aligned(max_size);
\* if (!src || !dst) { free; return; }
\* memset(src, 0xAA, max_size); memset(dst, 0, max_size)
LAlloc ==
    /\ ipc = "l_alloc"
    /\ \E ok \in BOOLEAN :
        IF ok
        THEN /\ lsrc' = Bytes(i_max_size, 170)
             /\ ldst' = Bytes(i_max_size, 0)
             /\ ipc' = "l_for_si"
        ELSE /\ ipc' = "i_free"
             /\ UNCHANGED <<lsrc, ldst>>
    /\ ifailed' = (ipc' = "i_free")
    /\ UNCHANGED <<epc, e_max_size, g_running, handler, eexit, iexit,
                   segid_file, fcontent, ready_file, done_file, seg_live,
                   shared_buf, fp, i_segid, i_max_size, attached, ilocal,
                   isi, ir, ierr, itimes, rows, isummaries, iverifies,
                   ireports, icopy_live, issued, ready_seen, done_seen,
                   nfields, itouched, nready, ndone, clean_start, notXp>>

\* for (si ...) { size = TEST_SIZES[si]; if (size > max_size) break;
LForSi ==
    /\ ipc = "l_for_si"
    /\ IF isi <= NUM_TEST_SIZES /\ TEST_SIZES[isi] <= i_max_size
       THEN /\ ipc' = "l_for_r"
            /\ ir' = 0
            /\ itimes' = 0
            /\ isi' = isi
       ELSE /\ ipc' = "l_free"
            /\ isi' = 1
            /\ UNCHANGED <<ir, itimes>>
    /\ UNCHANGED <<epc, e_max_size, g_running, handler, eexit, iexit,
                   segid_file, fcontent, ready_file, done_file, seg_live,
                   shared_buf, fp, i_segid, i_max_size, attached, ilocal,
                   lsrc, ldst, ierr, rows, isummaries, iverifies, ireports,
                   icopy_live, issued, ready_seen, done_seen, ifailed,
                   nfields, itouched, nready, ndone, clean_start, notXp>>

\* for (r = 0; r < REPEAT_COUNT; r++), else print_summary and si++
LForR ==
    /\ ipc = "l_for_r"
    /\ IF ir < REPEAT_COUNT
       THEN /\ ipc' = "l_clear"
            /\ UNCHANGED <<isi, isummaries>>
       ELSE /\ ipc' = "l_for_si"
            /\ isummaries' = isummaries + 1
            /\ isi' = isi + 1
    /\ UNCHANGED <<epc, e_max_size, g_running, handler, eexit, iexit,
                   segid_file, fcontent, ready_file, done_file, seg_live,
                   shared_buf, fp, i_segid, i_max_size, attached, ilocal,
                   lsrc, ldst, ir, ierr, itimes, rows, iverifies, ireports,
                   icopy_live, issued, ready_seen, done_seen, ifailed,
                   nfields, itouched, nready, ndone, clean_start, notXp>>

\* memset(dst, 0, size)
LClear ==
    /\ ipc = "l_clear"
    /\ ldst' = memset(ldst, 0, ISize)
    /\ ipc' = "l_t0"
    /\ UNCHANGED <<epc, e_max_size, g_running, handler, eexit, iexit,
                   segid_file, fcontent, ready_file, done_file, seg_live,
                   shared_buf, fp, i_segid, i_max_size, attached, ilocal,
                   lsrc, isi, ir, ierr, itimes, rows, isummaries, iverifies,
                   ireports, icopy_live, issued, ready_seen, done_seen,
                   ifailed, nfields, itouched, nready, ndone, clean_start,
                   notXp>>

\* t0 = get_time_sec()
LT0 ==
    /\ ipc = "l_t0"
    /\ ipc' = "l_copy"
    /\ UNCHANGED <<epc, e_max_size, g_running, handler, eexit, iexit,
                   segid_file, fcontent, ready_file, done_file, seg_live,
                   shared_buf, fp, i_segid, i_max_size, attached, ilocal,
                   lsrc, ldst, isi, ir, ierr, itimes, rows, isummaries,
                   iverifies, ireports, icopy_live, issued, ready_seen,
                   done_seen, ifailed, nfields, itouched, nready, ndone,
                   clean_start, notXp>>

\* memcpy(dst, src, size)
LCopy ==
    /\ ipc = "l_copy"
    /\ ldst' = memcpy(ldst, lsrc, ISize)
    /\ issued' = issued \cup {<<"LOCAL-cpy", ISize, i_max_size>>}
    /\ ipc' = "l_t1"
    /\ UNCHANGED <<epc, e_max_size, g_running, handler, eexit, iexit,
                   segid_file, fcontent, ready_file, done_file, seg_live,
                   shared_buf, fp, i_segid, i_max_size, attached, ilocal,
                   lsrc, isi, ir, ierr, itimes, rows, isummaries, iverifies,
                   ireports, icopy_live, ready_seen, done_seen, ifailed,
                   nfields, itouched, nready, ndone, clean_start, notXp>>

\* t1 = get_time_sec(); times[r] = t1 - t0; print_result("LOCAL-cpy", ...); r++
LT1 ==
    /\ ipc = "l_t1"
    /\ itimes' = itimes + 1
    /\ rows' = [rows EXCEPT !["LOCAL-cpy"][isi] = @ + 1]
    /\ ir' = ir + 1
    /\ ipc' = "l_for_r"
    /\ UNCHANGED <<epc, e_max_size, g_running, handler, eexit, iexit,
                   segid_file, fcontent, ready_file, done_file, seg_live,
                   shared_buf, fp, i_segid, i_max_size, attached, ilocal,
                   lsrc, ldst, isi, ierr, isummaries, iverifies, ireports,
                   icopy_live, issued, ready_seen, done_seen, ifailed,
                   nfields, itouched, nready, ndone, clean_start, notXp>>

\* free(src); free(dst);
LFree ==
    /\ ipc = "l_free"
    /\ lsrc' = <<>>
    /\ ldst' = <<>>
    /\ ipc' = "i_free"
    /\ UNCHANGED <<epc, e_max_size, g_running, handler, eexit, iexit,
                   segid_file, fcontent, ready_file, done_file, seg_live,
                   shared_buf, fp, i_segid, i_max_size, attached, ilocal,
                   isi, ir, ierr, itimes, rows, isummaries, iverifies,
                   ireports, icopy_live, issued, ready_seen, done_seen,
                   ifailed, nfields, itouched, nready, ndone, clean_start,
                   notXp>>

\* -- main, after the benchmarks --

\* free(local_buf)
IFree ==
    /\ ipc = "i_free"
    /\ ilocal' = <<>>
    /\ ipc' = "i_detach"
    /\ UNCHANGED <<epc, e_max_size, g_running, handler, eexit, iexit,
                   segid_file, fcontent, ready_file, done_file, seg_live,
                   shared_buf, fp, i_segid, i_max_size, attached, lsrc,
                   ldst, isi, ir, ierr, itimes, rows, isummaries, iverifies,
                   ireports, icopy_live, issued, ready_seen, done_seen,
                   ifailed, nfields, itouched, nready, ndone, clean_start,
                   notXp>>

\* xpmem_detach(attached_ptr); xpmem_release(apid)
IDetach ==
    /\ ipc = "i_detach"
    /\ attached' = FALSE
    /\ ipc' = "i_done"
    /\ UNCHANGED <<epc, e_max_size, g_running, handler, eexit, iexit,
                   segid_file, fcontent, ready_file, done_file, seg_live,
                   shared_buf, fp, i_segid, i_max_size, ilocal, lsrc, ldst,
                   isi, ir, ierr, itimes, rows, isummaries, iverifies,
                   ireports, icopy_live, issued, ready_seen, done_seen,
                   ifailed, nfields, itouched, nready, ndone, clean_start,
                   notXp>>

\* signal_file(DONE_FILE); return 0
IDone ==
    /\ ipc = "i_done"
    /\ done_file' = signal_file(done_file)
    /\ ipc' = "i_exited"
    /\ iexit' = 0
    /\ ndone' = ndone + 1
    /\ UNCHANGED <<epc, e_max_size, g_running, handler, eexit, segid_file,
                   fcontent, ready_file, seg_live, shared_buf, fp, i_segid,
                   i_max_size, attached, ilocal, lsrc, ldst, isi, ir, ierr,
                   itimes, rows, isummaries, iverifies, ireports,
                   icopy_live, issued, ready_seen, done_seen, ifailed,
                   nfields, itouched, nready, clean_start, notXp>>

Exporter ==
    \/ ESignal \/ EUnlinkSegid \/ EUnlinkReady \/ EUnlinkDone \/ EAlloc
    \/ EMake \/ EFopen \/ EFclose \/ EReady \/ ELoop \/ EAccess \/ ERemove
    \/ EFree

Importer ==
    \/ IWait \/ IFopen \/ IFscanf \/ IGet \/ IAttach \/ IAlloc
    \/ MForSi \/ MForR \/ MClear \/ MT0 \/ MCopy \/ MT1 \/ MVerify
    \/ DForSi \/ DForR \/ DT0 \/ DRead \/ DT1
    \/ LAlloc \/ LForSi \/ LForR \/ LClear \/ LT0 \/ LCopy \/ LT1 \/ LFree
    \/ IFree \/ IDetach \/ IDone

NextXp == Exporter \/ Importer \/ Sigint

\* ---------------------------------------------------------------------
\* Specifications
\* ---------------------------------------------------------------------

SpecPat == InitPat /\ ShmIdle /\ XpIdle /\ [][NextPat]_vars

SpecShm == InitShm /\ XpIdle /\ [][NextShm]_vars

SpecXp == InitXp /\ [][NextXp]_vars

\* one of the programs is run
Init ==
    \/ InitPat /\ ShmIdle /\ XpIdle
    \/ InitShm /\ XpIdle
    \/ InitXp

Next ==
    \/ TFill \/ TVerify
    \/ PSetup \/ PFork \/ PForSi \/ PForR \/ PFill
    \/ PStoreDataSize \/ PStoreIteration \/ PStorePhase
    \/ PWait \/ PReadTime \/ PCheck \/ PReset
    \/ PTermStoreSize \/ PTermStorePhase \/ PJoin \/ PCleanup
    \/ CAlloc \/ CWait \/ CReadSize \/ CClear \/ CT0 \/ CMemcpy \/ CT1
    \/ CStoreTime \/ CVerify \/ CStoreVerify \/ CStorePhase \/ CFree
    \/ ESignal \/ EUnlinkSegid \/ EUnlinkReady \/ EUnlinkDone \/ EAlloc
    \/ EMake \/ EFopen \/ EFclose \/ EReady \/ ELoop \/ EAccess \/ ERemove
    \/ EFree \/ Sigint
    \/ IWait \/ IFopen \/ IFscanf \/ IGet \/ IAttach \/ IAlloc
    \/ MForSi \/ MForR \/ MClear \/ MT0 \/ MCopy \/ MT1 \/ MVerify
    \/ DForSi \/ DForR \/ DT0 \/ DRead \/ DT1
    \/ LAlloc \/ LForSi \/ LForR \/ LClear \/ LT0 \/ LCopy \/ LT1 \/ LFree
    \/ IFree \/ IDetach \/ IDone

Spec == Init /\ [][Next]_vars

\* Something other than the two processes changes a byte of the payload
\* after the parent has written it: the data region is a named object
\* created with mode 0666 that any process can map, and verify_pattern is
\* there to detect such a change.
ShmCorrupt ==
    /\ ppc \notin {"off", "p_setup", "p_fork", "p_fault", "p_exited"}
    /\ shm[1] = PatternByte(0)
    /\ shm' = [shm EXCEPT ![1] = ByteMod - 1]
    /\ UNCHANGED <<ppc, cpc, psetup, pexit, cexit, ctrl, local_buf, si, r,
                   csize, cerr, ppend, cpend, elapsed, times, samples,
                   summaries, reports, posted, copies, verifies, notShm>>

\* the three programs in an environment that can corrupt the payload of
\* shm_bench
SpecFault == Init /\ [][Next \/ ShmCorrupt]_vars

\* both processes of shm_bench are scheduled again and again while they can
\* take a step
FairSpecShm == SpecShm /\ WF_vars(Parent) /\ WF_vars(Child)

\* the exporter and the importer are scheduled again and again while they
\* can take a step; SIGINT may or may not be delivered
FairSpecXp == SpecXp /\ WF_vars(Exporter) /\ WF_vars(Importer)

\* ---------------------------------------------------------------------
\* Properties of shm_bench
\* ---------------------------------------------------------------------

\* the parent is at a statement that stores to ctrl->phase
ParentWritesPhase == "phase" \in ppend \/ ppc = "p_reset"

\* the child is at a statement that stores to ctrl->phase
ChildWritesPhase == "phase" \in cpend

\* the size of the request the parent is currently making
RequestSize == IF ppc = "p_term" THEN 0 ELSE TEST_SIZES[si]

\* C1 (state part): the parent is about to write 1 only while phase is 0,
\* the child is about to write 2 only while phase is 1, the parent is about
\* to write 0 only while phase is 2 and times[r] has been read, and the two
\* processes are never both about to write phase.
PhaseOwnership ==
    /\ "phase" \in ppend => ctrl.phase = 0
    /\ "phase" \in cpend => ctrl.phase = 1
    /\ ppc = "p_reset" => ctrl.phase = 2 /\ Len(times) = r + 1
    /\ ~(ParentWritesPhase /\ ChildWritesPhase)

\* C1 (step part): every change of phase is 0 -> 1 by the parent,
\* 1 -> 2 by the child or 2 -> 0 by the parent.
PhaseStep ==
    ctrl.phase' # ctrl.phase =>
        \/ ctrl.phase = 0 /\ ctrl.phase' = 1 /\ "phase" \in ppend
                          /\ "phase" \notin ppend'
        \/ ctrl.phase = 1 /\ ctrl.phase' = 2 /\ "phase" \in cpend
                          /\ "phase" \notin cpend'
        \/ ctrl.phase = 2 /\ ctrl.phase' = 0 /\ ppc = "p_reset"

\* C1: in every reachable state and step of shm_bench the phase field is
\* written only by the three transitions 0 -> 1 (parent), 1 -> 2 (child) and
\* 2 -> 0 (parent, after reading copy_time), and never by both processes.
C1_PhaseSingleWriter == [](PhaseOwnership) /\ [][PhaseStep]_vars

\* C1 witness: in the second size the parent is about to reset phase from 2
C1_Witness == ppc = "p_reset" /\ ctrl.phase = 2 /\ si = 2 /\ r = 1

TermPosted == ppc \in {"p_term", "p_cleanup", "p_exited"} /\ "phase" \notin ppend
                /\ pexit # 1

Mismatches(buf, size) == {i \in 0..(size - 1) : buf[i + 1] # i % 256}

\* C7: verify_pattern returns 0 exactly when every byte below size equals
\* i mod 256, and otherwise 1 + the smallest mismatching offset.
C7_VerifyResult ==
    tpc \in {"verified", "roundtrip"} =>
        LET M == Mismatches(tbuf, tsize)
        IN /\ (tres = 0) <=> (M = {})
           /\ M # {} => tres = 1 + (CHOOSE i \in M : \A j \in M : i <= j)

\* C7 witness: a mismatch at offset 0 is reported as 1, with other
\* mismatches behind it
C7_Witness ==
    /\ tpc = "verified" /\ tres = 1
    /\ Cardinality(Mismatches(tbuf, tsize)) >= 2

\* C8: fill_pattern followed immediately by verify_pattern returns 0, for
\* every size.
C8_RoundTrip == tpc = "roundtrip" => tres = 0

\* C8 witness: a round trip over a size beyond the wrap of the pattern that
\* is no multiple of 8, on a buffer that did not hold the pattern before
C8_Witness ==
    /\ tpc = "roundtrip" /\ tsize = 257
    /\ tbuf[1] = 0 /\ tbuf[257] = 0 /\ tbuf[258] # 1


\* ---------------------------------------------------------------------
\* Properties of the benchmark loops
\* ---------------------------------------------------------------------

\* positions of the importer inside a benchmark loop body
LoopBodyPcs == {"m_for_r", "m_clear", "m_t0", "m_copy", "m_t1", "m_verify",
                "d_for_r", "d_t0", "d_read", "d_t1",
                "l_for_r", "l_clear", "l_t0", "l_copy", "l_t1"}

DirectPcs == {"d_for_si", "d_for_r", "d_t0", "d_read", "d_t1"}

LocalPcs == {"l_alloc", "l_for_si", "l_for_r", "l_clear", "l_t0", "l_copy",
             "l_t1", "l_free"}

EndPcs == {"i_free", "i_detach", "i_done"}

\* the loop of bench_xpmem_memcpy has been left
CpyDone == ipc \in DirectPcs \cup LocalPcs \cup EndPcs
              \/ (ipc = "i_exited" /\ iexit = 0)

\* the loop of bench_xpmem_direct has been left
DirDone == ipc \in LocalPcs \cup EndPcs \/ (ipc = "i_exited" /\ iexit = 0)

\* the loop of bench_local_memcpy has been left
LocDone == ipc = "l_free"

\* the rows a finished loop has printed for capacity cap: REPEAT_COUNT for
\* every entry up to cap and none beyond
FullRows(cap) ==
    [k \in 1..NUM_TEST_SIZES |->
        IF TEST_SIZES[k] <= cap THEN REPEAT_COUNT ELSE 0]

\* C5: no transfer is issued with a size above max_size, and a finished
\* loop has run REPEAT_COUNT repeats of every table entry up to and
\* including max_size and nothing beyond the first entry that exceeds it.
C5_SizeWithinCapacity ==
    /\ \A t \in issued : t[2] <= t[3]
    /\ ipc \in LoopBodyPcs => ISize <= i_max_size
    /\ cpc \in {"c_clear", "c_t0", "c_memcpy", "c_t1"} => csize <= shm_max_size
    /\ ppc \in {"p_fill", "p_publish"} => TEST_SIZES[si] <= shm_max_size
    /\ CpyDone => rows["xpmem-cpy"] = FullRows(i_max_size)
    /\ DirDone => rows["xpmem-dir"] = FullRows(i_max_size)
    /\ LocDone => rows["LOCAL-cpy"] = FullRows(i_max_size)
    /\ pexit = 0 => samples = FullRows(shm_max_size)

\* C5 witness: max_size equals the second table entry; the memcpy loop has
\* run it REPEAT_COUNT times and has not run the third
C5_Witness ==
    /\ ipc = "d_for_si" /\ i_max_size = TEST_SIZES[2]
    /\ rows["xpmem-cpy"][2] = REPEAT_COUNT /\ rows["xpmem-cpy"][3] = 0
    /\ <<"xpmem-cpy", TEST_SIZES[2], TEST_SIZES[2]>> \in issued

C9_VerifyOncePerSize ==
    /\ \A k \in 1..Len(verifies) : verifies[k] <= 1
    /\ \A k \in 1..Len(iverifies) : iverifies[k] <= 1
    /\ pexit = 0 => \A k \in 1..NUM_TEST_SIZES : verifies[k] = 1
    /\ CpyDone => \A k \in 1..NUM_TEST_SIZES :
                    iverifies[k] = IF TEST_SIZES[k] <= i_max_size THEN 1 ELSE 0

\* ---------------------------------------------------------------------
\* Properties of the marker-file protocol
\* ---------------------------------------------------------------------

\* the step xpmem_remove(segid) of the exporter's cleanup (line 104)
RemoveStep == epc = "e_remove" /\ epc' = "e_free"

C11_NoStaleMarker ==
    /\ ready_seen \in {"", "run"}
    /\ done_seen \in {"", "run"}

\* ---------------------------------------------------------------------
\* C12: SIGINT
\* ---------------------------------------------------------------------

\* SIGINT has been delivered to the exporter
Interrupted == g_running = 0 \/ epc = "e_killed"

\* a step in which SIGINT is delivered
SigintStep == g_running' # g_running \/ (epc' = "e_killed" /\ epc # "e_killed")

\* the exporter is in its top-level wait loop
InWaitLoop == epc \in {"e_loop", "e_access"}

\* the state of the importer process
importerVars == <<ipc, iexit, fp, i_segid, i_max_size, attached, ilocal, lsrc,
                  ldst, isi, ir, ierr, itimes, rows, isummaries, iverifies,
                  ireports, icopy_live, issued, ready_seen, ifailed,
                  nfields, itouched, ndone>>

\* the exporter has run its cleanup and returned 0
CleanExit ==
    /\ epc = "e_exited" /\ eexit = 0
    /\ ~seg_live /\ shared_buf = <<>>
    /\ segid_file = 0 /\ ready_file = "none" /\ done_file = "none"

C13_SetupFailureExits1 ==
    /\ ifailed => (ipc = "i_exited" /\ iexit = 1)
    /\ iexit = 0 => ~ifailed
    /\ eexit = 0 => nready = 1
    /\ eexit = 1 => (nready = 0 /\ ~seg_live)
    /\ ppc # "p_fault"
    /\ pexit = 1 => (cpc = "c_none" /\ \A k \in 1..NUM_TEST_SIZES : samples[k] = 0)
    /\ pexit = 0 => psetup = Len(SetupCalls)
    /\ cexit = 1 => copies = 0

\* ---------------------------------------------------------------------
\* C14: malformed descriptor
\* ---------------------------------------------------------------------

\* C14: when fscanf converts fewer than three fields of the descriptor
\* file, the importer exits with a non-zero code, has printed no benchmark
\* row, and has neither attached the region nor performed a transfer.
C14_ShortDescriptorRejected ==
    (nfields # NotCalled /\ nfields < 3) =>
        /\ ipc = "i_exited" /\ iexit = 1
        /\ ~attached /\ issued = {}
        /\ \A m \in Methods : rows[m] = NoRows

\* C14 witness: the importer has read a two-field descriptor left by an
\* earlier run and has exited, although the segment of this run exists
C14_Witness ==
    /\ nfields = 2 /\ ipc = "i_exited" /\ iexit = 1
    /\ seg_live /\ ready_seen = "stale"

\* ---------------------------------------------------------------------
\* C15: verification mismatch
\* ---------------------------------------------------------------------

\* C15: a mismatch found by the child of shm_bench or by the importer is
\* reported by the reporting side (the parent, the importer) and is not
\* fatal: when the parent ends a cycle in which the child's verify_pattern
\* returned non-zero it has reported that value for this cycle, the
\* importer has reported the non-zero value its verify_pattern returned,
\* and a run that ends normally has printed the full number of rows.
C15_MismatchReported ==
    /\ (ppc = "p_reset" /\ cerr # 0) =>
            \E k \in 1..Len(reports) : reports[k] = <<si, r, cerr>>
    /\ ierr # 0 => (Len(ireports) > 0 /\ ireports[Len(ireports)][1] = ierr)
    /\ pexit = 0 => samples = FullRows(shm_max_size)
    /\ (ipc = "i_exited" /\ iexit = 0) =>
            rows["xpmem-cpy"] = FullRows(i_max_size)

\* ---------------------------------------------------------------------
\* C16: one side accesses the payload per phase
\* ---------------------------------------------------------------------

\* the child has observed phase == 1 and has not yet written phase = 2
ChildHoldsPayload ==
    \/ cpc \in {"c_read_size", "c_clear", "c_t0", "c_memcpy", "c_t1",
                "c_store_time", "c_verify"}
    \/ "phase" \in cpend

\* a step in which the parent executes fill_pattern(shm_ptr, size)
FillStep == ppc = "p_fill" /\ ppc' = "p_publish"

\* C16: the parent writes the shared data region (fill_pattern) only while
\* phase is 0 and never between the child's observation of phase == 1 and
\* the child's write of phase = 2; the parent is never at fill_pattern while
\* the child is at its timed memcpy.
C16_FillOnlyWhenIdle ==
    /\ [][FillStep => (ctrl.phase = 0 /\ ~ChildHoldsPayload)]_vars
    /\ [][(shm' # shm) => FillStep]_vars
    /\ [](cpc \in {"c_t0", "c_memcpy", "c_t1"} => ppc # "p_fill")

\* C16 witness: the child is at its timed memcpy of the second size, which
\* the parent has filled and requested, while the parent waits
C16_Witness ==
    /\ cpc = "c_memcpy" /\ csize = TEST_SIZES[2]
    /\ ppc = "p_publish" /\ ppend = {} /\ ctrl.phase = 1
    /\ shm = fill_pattern(shm, TEST_SIZES[2])

\* ---------------------------------------------------------------------
\* C17: what a timed bracket encloses
\* ---------------------------------------------------------------------

\* the child of shm_bench is between the clock readings t0 and t1
\* (at the reading of t0, at the transfer, or at the reading of t1)
ChildTimed == cpc \in {"c_t0", "c_memcpy", "c_t1"}

\* the importer is between the clock readings t0 and t1 of a measurement
ImporterTimed ==
    ipc \in {"m_t0", "m_copy", "m_t1", "d_t0", "d_read", "d_t1",
             "l_t0", "l_copy", "l_t1"}

\* a step in which the exporter zeroes and fills shared_buf
ExporterFillStep == epc = "e_alloc" /\ epc' # epc

\* the bytes of a buffer from offset n on
Beyond(buf, n) == SubSeq(buf, n + 1, Len(buf))

\* C17: between the clock readings t0 and t1 of every measurement exactly
\* one transfer is executed (one memcpy of the measured size, or one read
\* traversal) and nothing else touches the buffers: no clearing, no pattern
\* fill and no verify_pattern of either process.
C17_BracketHoldsOneTransfer ==
    /\ [][ChildTimed =>
            /\ ~FillStep /\ shm' = shm /\ verifies' = verifies
            /\ (cpc' # cpc) => ((copies' = copies + 1) <=> (cpc = "c_memcpy"))
            /\ (local_buf' # local_buf) =>
                    (cpc = "c_memcpy" /\ local_buf' = memcpy(local_buf, shm, csize))
            /\ cpc' \in {cpc, IF cpc = "c_t0" THEN "c_memcpy"
                               ELSE IF cpc = "c_memcpy" THEN "c_t1"
                               ELSE "c_store_time"}]_vars
    /\ [][ImporterTimed =>
            /\ ~ExporterFillStep /\ iverifies' = iverifies /\ lsrc' = lsrc
            /\ (shared_buf' # shared_buf) => epc = "e_free"
            /\ (ilocal' # ilocal) =>
                    (ipc = "m_copy" /\ Beyond(ilocal', ISize) = Beyond(ilocal, ISize))
            /\ (ldst' # ldst) =>
                    (ipc = "l_copy" /\ ldst' = memcpy(ldst, lsrc, ISize))
            /\ (issued' # issued) => ipc \in {"m_copy", "d_read", "l_copy"}]_vars

\* C17 witness: the importer has executed the one memcpy of a bracket of
\* the second size and is about to read t1; the bytes of local_buf beyond
\* the measured size still hold what malloc delivered
C17_Witness ==
    /\ ipc = "m_t1" /\ isi = 2 /\ ir = 1 /\ seg_live
    /\ ISize < i_max_size /\ ilocal[i_max_size] = 170
    /\ verify_pattern(ilocal, ISize) = 0

\* ---------------------------------------------------------------------
\* C18: residency before the timed operation
\* ---------------------------------------------------------------------

\* the first n bytes of a buffer have been zeroed
Zeroed(buf, n) == Len(buf) >= n /\ \A k \in 1..n : buf[k] = 0

\* C18: at every clock reading t0 the measuring process has already
\* touched every byte of the source and of the destination that the timed
\* operation is going to access: the importer has accessed the first size
\* bytes of the attached region and has written its local buffers, and in
\* shm_bench the data region was zero-filled before fork and the child has
\* written local_buf.
C18_ResidentBeforeTimed ==
    /\ ipc = "m_t0" => (itouched >= ISize /\ Zeroed(ilocal, ISize))
    /\ ipc = "d_t0" => itouched >= (ISize \div WordSize) * WordSize
    /\ ipc = "l_t0" => (Len(lsrc) >= ISize /\ Zeroed(ldst, ISize))
    /\ cpc = "c_t0" =>
            /\ psetup = Len(SetupCalls) /\ Len(shm) >= csize
            /\ Zeroed(local_buf, csize)

\* ---------------------------------------------------------------------
\* C19: marker-file protocol
\* ---------------------------------------------------------------------

\* the descriptor file exists and holds the three fields of this exporter
DescriptorComplete ==
    /\ segid_file # 0
    /\ fcontent[segid_file] = <<"cur", e_max_size, "pid">>

\* the three benchmark functions of the importer have returned, the local
\* one possibly at once because its allocation failed
BenchmarksReturned ==
    /\ rows["xpmem-cpy"] = FullRows(i_max_size)
    /\ rows["xpmem-dir"] = FullRows(i_max_size)
    /\ rows["LOCAL-cpy"] = FullRows(i_max_size) \/ ifailed

\* C19: the exporter creates the ready marker once, and only when the
\* descriptor file is completely written and closed; the importer creates
\* the done marker once, and only after its three benchmarks have returned
\* and it has detached the region; and when no marker file existed at the
\* start, every descriptor read of the importer has delivered the three
\* fields this exporter wrote.
C19_MarkersOnceInOrder ==
    /\ [](nready <= 1 /\ ndone <= 1)
    /\ [](InWaitLoop => nready = 1)
    /\ []((ipc = "i_exited" /\ iexit = 0) => ndone = 1)
    /\ [][(nready' # nready) =>
            (DescriptorComplete /\ ready_file = "none" /\ ready_file' = "run")]_vars
    /\ [][(ndone' # ndone) =>
            (BenchmarksReturned /\ ~attached /\ done_file' = "run")]_vars
    /\ []((clean_start /\ nfields # NotCalled) =>
            (nfields = 3 /\ i_segid = "cur" /\ i_max_size = e_max_size))

\* C19 witness: started without marker files, the importer has read the
\* descriptor, run its benchmarks, detached and created the done marker
\* while the exporter, having signalled ready once, is in its wait loop
C19_Witness ==
    /\ clean_start /\ nfields = 3 /\ nready = 1 /\ ndone = 1
    /\ InWaitLoop /\ done_file = "run" /\ ready_file = "run"
    /\ rows["LOCAL-cpy"][NUM_TEST_SIZES] = REPEAT_COUNT

\* ---------------------------------------------------------------------
\* C20: the handshake of shm_bench does not deadlock
\* ---------------------------------------------------------------------

\* shm_bench runs and no call of its setup, fork or the child's allocation
\* has failed
NoFailure ==
    /\ ppc \notin {"off", "p_fault"} /\ pexit # 1 /\ cexit # 1
    /\ (ppc \notin {"p_setup", "p_fork"}) => cpc # "c_none"

\* both processes have ended normally
BothDone == ppc = "p_exited" /\ pexit = 0 /\ cpc = "c_exited" /\ cexit = 0

\* the parent polls for phase == 2 after a request with data_size > 0
ParentPolls == ppc = "p_publish" /\ ppend = {} /\ ctrl.phase # 2

\* the parent is in wait(NULL) after the termination request
ParentJoins == ppc = "p_term" /\ ppend = {} /\ cpc # "c_exited"

\* the child polls for phase == 1
ChildPolls == cpc = "c_wait" /\ cpend = {} /\ ctrl.phase # 1

====
